---------------------------- MODULE Spec2Model ----------------------------
(***************************************************************************)
(* The SPF resolution engine of the domain checker: resolveSPFRecord and   *)
(* parseSPFTree of the SPF checker component.                              *)
(*                                                                         *)
(* parseSPFTree is a recursive async function.  It is modelled with an     *)
(* explicit call stack of frames; one action is one run of the code        *)
(* between two suspension points of the top frame (the await of the DNS    *)
(* fetch, the await of a recursive call) or, inside the token loop, one    *)
(* iteration of the loop.  The code is single threaded and awaits every    *)
(* call before it goes on, so only the top frame ever moves.               *)
(***************************************************************************)
EXTENDS Integers, Sequences, FiniteSets, TLC

(***************************************************************************)
(* Bounds of the model and constants of the program.                       *)
(***************************************************************************)
\* Domain names 0 .. NSmall-1 answer with any outcome of Outcomes.
NSmall == 3
\* The longest chain of distinct domains, each including the next.
ChainLen == 12
\* The calls of checkSPF that are followed where calls may overlap.
MaxCalls == 2
\* depth > 10 is rejected
MaxDepth == 10
\* more than 2 void lookups is an error
VoidLimit == 2
\* record length limits in octets
MaxOctets == 512
WarnOctets == 450
\* the DNS lookups a report may show without failing
LookupBudget == 10

VARIABLES
    dns,          \* the zone as far as it is known: domain -> HTTP/DNS response
    stack,        \* call stack of parseSPFTree frames, the running call last
    ret,          \* value handed back by the call that returned last
    voidLookups,  \* context.voidLookups
    warnings,     \* context.warnings
    errors,       \* context.errors
    queries,      \* the TXT queries issued so far (fetch calls), in order
    result,       \* the component's result state
    error,        \* the component's error state
    loading,      \* the component's loading state
    active,       \* the running call of checkSPF has not reached its end
    others,       \* the calls of checkSPF that are not running: suspended at
                  \* an await, or ended
    calls         \* the number of calls of checkSPF so far

vars == <<dns, stack, ret, voidLookups, warnings, errors, queries,
          result, error, loading, active, others, calls>>
\* the state of the component, which parseSPFTree never touches
ui == <<result, error, loading>>
\* the calls of checkSPF
session == <<active, others, calls>>

(***************************************************************************)
(* Tokens of a record.  A token is its optional qualifier character q, its *)
(* name up to and including the separator, and its argument: a domain for  *)
(* include:, redirect= and exists:, an address for ip4: and ip6:.  pfx is  *)
(* the /n suffix of the token, NoPfx when the token has none.              *)
(***************************************************************************)
NoPfx == -1
NoArg == -1

Tok(q, name, arg, pfx) == [q |-> q, name |-> name, arg |-> arg, pfx |-> pfx]

Version       == Tok("", "v=spf1", NoArg, NoPfx)
Include(q, d) == Tok(q, "include:", d, NoPfx)
Redirect(d)   == Tok("", "redirect=", d, NoPfx)
Ip4(q, a, p)  == Tok(q, "ip4:", a, p)
Ip6(q, a, p)  == Tok(q, "ip6:", a, p)
All(q)        == Tok(q, "all", NoArg, NoPfx)

Qualifiers == {"+", "-", "~", "?"}

(***************************************************************************)
(* Diagnostics pushed to context.errors and context.warnings.              *)
(***************************************************************************)
Diag(kind, domain, n, tok) == [kind |-> kind, domain |-> domain, n |-> n, tok |-> tok]

DepthError(d)      == Diag("depth-or-cycle", d, 0, Version)
VoidError(n, d)    == Diag("void-limit", d, n, Version)
MultipleError(d)   == Diag("multiple-spf", d, 0, Version)
FormatError(d)     == Diag("format", d, 0, Version)
LengthError(n, d)  == Diag("length", d, n, Version)

NxdomainWarning(d)   == Diag("nxdomain", d, 0, Version)
NoSpfWarning(d)      == Diag("no-spf", d, 0, Version)
LengthWarning(n, d)  == Diag("length", d, n, Version)
AfterAllWarning(t, d) == Diag("after-all", d, 0, t)
RedirectIgnoredWarning(d) == Diag("redirect-ignored", d, 0, Version)
PtrWarning(d)        == Diag("ptr", d, 0, Version)
MxWarning(d)         == Diag("mx", d, 0, Version)
UnknownWarning(t, d) == Diag("unknown", d, 0, t)

(***************************************************************************)
(* What the DNS-over-HTTPS endpoint answers for one name.  net is "throw"  *)
(* when fetch or response.json() throws, "http-error" when response.ok is  *)
(* false, "ok" otherwise; Status is the RCODE of the JSON body and Answer  *)
(* its TXT strings.  A TXT string is its whitespace separated tokens and   *)
(* its length in octets.                                                   *)
(***************************************************************************)
Txt(toks, octets) == [toks |-> toks, octets |-> octets]
Response(net, status, answer) == [net |-> net, Status |-> status, Answer |-> answer]
DnsOk(answer) == Response("ok", 0, answer)

NoRecord == Txt(<<>>, 0)

\* answer.data.includes('v=spf1')
ContainsSpf(data) == \E k \in 1..Len(data.toks) : data.toks[k].name = "v=spf1"

\* record.startsWith('v=spf1')
StartsWithSpf(record) ==
    /\ Len(record.toks) > 0
    /\ record.toks[1].name = "v=spf1"
    /\ record.toks[1].q = ""

(***************************************************************************)
(* The guard shared by resolveSPFRecord and parseSPFTree.                  *)
(***************************************************************************)
\* mutants: the guard without its cycle test; the guard one level early
GuardDepthOnly(depth, visited, domain) == depth > MaxDepth
GuardOneEarly(depth, visited, domain) == depth >= MaxDepth \/ domain \in visited

\* mutant: the guard one level late
GuardOneLate(depth, visited, domain) == depth > MaxDepth + 1 \/ domain \in visited

GuardTrips(depth, visited, domain) == depth > MaxDepth \/ domain \in visited

(***************************************************************************)
(* resolveSPFRecord: the classification of one response.                   *)
(***************************************************************************)
Result(record, err, isVoid) == [record |-> record, error |-> err, isVoid |-> isVoid]

\* mutant: SERVFAIL counts as a void lookup
ServfailVoid(resp) ==
    IF resp.Status = 3 THEN Result(NoRecord, "nxdomain", TRUE)
    ELSE IF resp.Status = 2 THEN Result(NoRecord, "servfail", TRUE)
    ELSE IF resp.Status # 0 \/ Len(resp.Answer) = 0
         THEN Result(NoRecord, "no-answer", TRUE)
    ELSE Result(NoRecord, "none", FALSE)

\* lines 31-42: the RCODE and the empty answer
StatusResult(resp) ==
    IF resp.Status = 3 THEN Result(NoRecord, "nxdomain", TRUE)
    ELSE IF resp.Status = 2 THEN Result(NoRecord, "servfail", FALSE)
    ELSE IF resp.Status # 0 \/ Len(resp.Answer) = 0
         THEN Result(NoRecord, "no-answer", TRUE)
    ELSE Result(NoRecord, "none", FALSE)

\* mutant: the first SPF record is taken, however many there are
SelectFirst(answer) ==
    LET spfRecords == SelectSeq(answer, ContainsSpf) IN
    IF Len(spfRecords) = 0 THEN Result(NoRecord, "no-spf", FALSE)
    ELSE Result(spfRecords[1], "none", FALSE)

\* lines 45-66: the selection of the SPF record among the TXT strings
SelectResult(answer) ==
    LET spfRecords == SelectSeq(answer, ContainsSpf) IN
    IF Len(spfRecords) = 0 THEN Result(NoRecord, "no-spf", FALSE)
    ELSE IF Len(spfRecords) > 1 THEN Result(NoRecord, "multiple-spf", FALSE)
    ELSE Result(spfRecords[1], "none", FALSE)

resolveSPFRecord(domain, depth, visited, resp) ==
    IF GuardTrips(depth, visited, domain) THEN Result(NoRecord, "max-depth", FALSE)
    ELSE IF resp.net = "throw" THEN Result(NoRecord, "exception", FALSE)
    ELSE IF resp.net = "http-error" THEN Result(NoRecord, "network", FALSE)
    ELSE IF StatusResult(resp).error # "none" THEN StatusResult(resp)
    ELSE SelectResult(resp.Answer)

(***************************************************************************)
(* The classification of one token, in the order of the else-if chain of   *)
(* the token loop.                                                         *)
(***************************************************************************)
TokenKind(t) ==
    IF t.name = "include:" THEN "include"
    ELSE IF t.name = "redirect=" /\ t.q = "" THEN "redirect"
    ELSE IF t.name = "ip4:" THEN "ip4"
    ELSE IF t.name = "ip6:" THEN "ip6"
    ELSE IF t.name = "ptr" THEN "ptr"
    ELSE IF t.name = "a" THEN "a"
    ELSE IF t.name = "mx" THEN "mx"
    ELSE IF t.name = "exists:" THEN "exists"
    ELSE IF t.name = "all" THEN "all"
    ELSE IF ~(t.name = "v=spf1" /\ t.q = "") THEN "unknown"
    ELSE "version"

\* getQualifier
getQualifier(t) == IF t.q \in Qualifiers THEN t.q ELSE "+"

\* mutant: the token's own text is kept
Verbatim(t) == t

\* the mechanism text shown for include, ip4 and ip6 elements
WithQualifier(t) == [t EXCEPT !.q = IF t.q \in Qualifiers THEN t.q ELSE "+"]

\* mutant: a ?all is taken for a pass
AllQualifierNoNeutral(t) ==
    IF t.q = "~" THEN "softfail"
    ELSE IF t.q = "-" THEN "fail"
    ELSE "pass"

\* the qualifier name of an all element
AllQualifier(t) ==
    IF t.q = "~" THEN "softfail"
    ELSE IF t.q = "-" THEN "fail"
    ELSE IF t.q = "?" THEN "neutral"
    ELSE "pass"

\* mutant: the block is the token's own text
RawCidr(t) == [addr |-> t.arg, pfx |-> t.pfx]

\* ip.includes('/') ? ip : `${ip}/32`
Cidr(t) == [addr |-> t.arg, pfx |-> IF t.pfx # NoPfx THEN t.pfx ELSE 32]

\* lines 5-9: bits ? parseInt(bits) : 32
calculateIPv4Count(cidr) ==
    LET prefixLength == IF cidr.pfx # NoPfx THEN cidr.pfx ELSE 32
    IN  2 ^ (32 - prefixLength)

(***************************************************************************)
(* The zones.  A name of 0 .. NSmall-1 answers with one of Outcomes; the   *)
(* answer is drawn when the name is first queried and kept in dns, so a    *)
(* name queried twice in one resolution answers the same.  A chain zone    *)
(* is known from the start: each of its names includes (or redirects to)   *)
(* the next.                                                               *)
(***************************************************************************)
SmallDomains == 0..(NSmall - 1)

\* an include of t and a redirect to t; an include of each of t and u
Links(t, u) ==
    IF t = u
    THEN <<Version, Ip4("", t, 24), Include("", t), Redirect(t)>>
    ELSE <<Version, Include("", t), Include("-", u)>>

\* the name after t, the last name being followed by the first
NextName(t) == (t + 1) % NSmall

\* every other kind of token, and tokens after all
Mixed ==
    <<Version, Ip4("", 7, 24), Ip4("-", 8, NoPfx), Ip6("", 9, 64),
      Tok("", "a", NoArg, NoPfx), Tok("+", "mx", NoArg, NoPfx),
      Tok("?", "ptr", NoArg, NoPfx), Tok("", "exists:", 1, NoPfx),
      Tok("", "exp=", 1, NoPfx), All("~"), Redirect(1), Ip4("", 7, 24)>>
\* a record that does not start with the version token
Misplaced == <<Tok("", "spf", NoArg, NoPfx), Version, Ip4("", 7, 24), All("-")>>

NotSpf == Txt(<<Tok("", "site-verification=", NoArg, NoPfx)>>, 40)

Records ==
    UNION {{Txt(Links(t, t), 60), Txt(Links(t, NextName(t)), 60)} : t \in SmallDomains}
    \cup {Txt(Mixed, WarnOctets + 1), Txt(Misplaced, MaxOctets + 1)}

Failures ==
    { Response("throw", 0, <<>>),
      Response("http-error", 0, <<>>),
      Response("ok", 3, <<>>),
      Response("ok", 2, <<>>),
      Response("ok", 5, <<>>),
      DnsOk(<<>>),
      DnsOk(<<NotSpf>>),
      DnsOk(<<Txt(Mixed, 60), NotSpf, Txt(Misplaced, 60)>>),
      DnsOk(<<Txt(<<Version, All("-")>>, 30), Txt(<<Version, All("-")>>, 30)>>) }

Outcomes == Failures \cup {DnsOk(<<NotSpf, r>>) : r \in Records}

ChainZone(n, link) ==
    [d \in 0..n |->
        IF d = n THEN DnsOk(<<Txt(<<Version, All("-")>>, 30)>>)
        ELSE IF link = "include"
             THEN DnsOk(<<Txt(<<Version, Include("", d + 1)>>, 30)>>)
             ELSE DnsOk(<<Txt(<<Version, Redirect(d + 1)>>, 30)>>)]

ChainZones == {ChainZone(n, link) : n \in 1..ChainLen, link \in {"include", "redirect"}}

\* a zone of one record a domain, the domains numbered from 0
Zone(records) == [d \in 0..(Len(records) - 1) |-> DnsOk(<<records[d + 1]>>)]

\* a root with a block and an include of a domain with the same block
DupZone ==
    Zone(<<Txt(<<Version, Ip4("", 10, 24), Include("", 1), All("")>>, 60),
           Txt(<<Version, Ip4("", 10, 24), All("-")>>, 30)>>)
\* a block of 256 addresses and a bare address
SumZone == Zone(<<Txt(<<Version, Ip4("", 20, 24), Ip4("", 21, NoPfx), All("-")>>, 60)>>)
\* a record of n octets
LengthZone(n) == Zone(<<Txt(<<Version, All("-")>>, n)>>)

\* an include with a qualifier, a ?all and a +all
QualifierZone ==
    Zone(<<Txt(<<Version, Include("~", 1), All("?")>>, 60),
           Txt(<<Version, All("+")>>, 30)>>)

\* a root that gives diagnostics before, in and after the target of its
\* first include
OrderZone ==
    Zone(<<Txt(<<Version, Tok("", "mx", NoArg, NoPfx), Include("", 1),
                 Tok("", "ptr", NoArg, NoPfx), Include("", 0), All("-")>>,
               MaxOctets + 1),
           Txt(<<Tok("", "exp=", 1, NoPfx), Version, Include("", 0),
                 Tok("", "a", NoArg, NoPfx)>>, 30)>>)

ExampleZones ==
    {DupZone, SumZone, QualifierZone, OrderZone}
    \cup {LengthZone(n) : n \in {WarnOctets, WarnOctets + 1, MaxOctets, MaxOctets + 1}}

\* a zone in which every kind of answer and of token is met: the root
\* includes itself, a domain with every kind of token and a domain with two
\* SPF records, and redirects to a name that does not exist
FullZone ==
    [d \in 0..3 |->
        IF d = 0 THEN DnsOk(<<Txt(<<Version, Include("", 0), Include("", 1),
                                    Include("?", 2), Redirect(3)>>, 60)>>)
        ELSE IF d = 1 THEN DnsOk(<<NotSpf, Txt(Mixed, WarnOctets + 1)>>)
        ELSE IF d = 2 THEN DnsOk(<<Txt(<<Version, All("-")>>, 30),
                                   Txt(<<Version, All("-")>>, 30)>>)
        ELSE Response("ok", 3, <<>>)]

\* the zones under which overlapping calls are followed
OverlapZones == {FullZone, DupZone}

\* the zone of which no answer is known yet
Unknown == [d \in {} |-> DnsOk(<<>>)]

\* mutant: a name that is queried again may answer otherwise
AnswersAnew(d) == Outcomes

Answers(d) == IF d \in DOMAIN dns THEN {dns[d]} ELSE Outcomes

(***************************************************************************)
(* Frames of parseSPFTree and the values it returns.                       *)
(***************************************************************************)
Frame(domain, depth, visited) ==
    [domain |-> domain, depth |-> depth, visited |-> visited, pc |-> "entry",
     record |-> NoRecord, mechanisms |-> <<>>, i |-> 0, children |-> <<>>,
     dnsLookups |-> 0, netblocks |-> <<>>, allFound |-> FALSE]

\* the object of lines 268-277; its warnings, errors and voidLookups fields
\* are the context's own arrays and counter, which stay in the variables
Node(f) ==
    [domain |-> f.domain, record |-> f.record, children |-> f.children,
     dnsLookups |-> f.dnsLookups, netblocks |-> f.netblocks]

\* what a call hands back: null or a node.  visited is the callee's own
\* visited set when it returned, which the caller never sees in the code
Nothing == [kind |-> "none"]
Null(visited) == [kind |-> "null", visited |-> visited]
Returned(node, visited) == [kind |-> "node", node |-> node, visited |-> visited]

\* mutant: the callee works on the caller's own set
SharedVisited(own, callee) == callee

\* new Set(visited): the callee works on a copy, so the caller's set after
\* the call is its own set, whatever the callee added to the copy
CallerVisited(own, callee) == own

Top == stack[Len(stack)]
Caller == SubSeq(stack, 1, Len(stack) - 1)
SetTop(f) == [stack EXCEPT ![Len(stack)] = f]
Running == stack # <<>>
Done == stack = <<>>

\* the value of the result state and of the error state before a check
NoResult == [kind |-> "null"]
NoError == ""
\* line 413: "SPF 레코드를 찾을 수 없습니다."
NotFound == "SPF record not found"
\* line 400: "도메인을 입력해주세요."
EnterDomain == "enter a domain"

\* lines 398-410: checkSPF was called with a domain, has set loading, has
\* cleared error and result, and calls parseSPFTree with the defaults of
\* line 74: depth 0, an empty visited set and a fresh context
Init ==
    /\ dns \in {Unknown} \cup ChainZones \cup ExampleZones
    /\ result = NoResult
    /\ error = NoError
    /\ loading = TRUE
    /\ active = TRUE
    /\ others = <<>>
    /\ calls = 1
    /\ stack = <<Frame(0, 0, {})>>
    /\ ret = Nothing
    /\ voidLookups = 0
    /\ warnings = <<>>
    /\ errors = <<>>
    /\ queries = <<>>

(***************************************************************************)
(* Lines 75-78: the depth and cycle guard.                                 *)
(***************************************************************************)
GuardReject ==
    /\ Running
    /\ Top.pc = "entry"
    /\ GuardTrips(Top.depth, Top.visited, Top.domain)
    /\ errors' = Append(errors, DepthError(Top.domain))
    /\ stack' = Caller
    /\ ret' = Null(Top.visited)
    /\ UNCHANGED <<dns, voidLookups, warnings, queries>>
    /\ UNCHANGED <<ui, session>>

\* mutant: the query is issued a second time
FetchRetried ==
    /\ Running
    /\ Top.pc = "entry"
    /\ ~GuardTrips(Top.depth, Top.visited, Top.domain)
    /\ queries' = Append(Append(queries, Top.domain), Top.domain)
    /\ stack' = SetTop([Top EXCEPT !.pc = "fetch"])
    /\ UNCHANGED <<dns, ret, voidLookups, warnings, errors>>
    /\ UNCHANGED <<ui, session>>

(***************************************************************************)
(* Lines 80 and 13-22: the call of resolveSPFRecord on a copy of visited,  *)
(* up to its fetch.                                                        *)
(***************************************************************************)
Fetch ==
    /\ Running
    /\ Top.pc = "entry"
    /\ ~GuardTrips(Top.depth, Top.visited, Top.domain)
    /\ queries' = IF GuardTrips(Top.depth, Top.visited, Top.domain)
                  THEN queries ELSE Append(queries, Top.domain)
    /\ stack' = SetTop([Top EXCEPT !.pc = "fetch"])
    /\ UNCHANGED <<dns, ret, voidLookups, warnings, errors>>
    /\ UNCHANGED <<ui, session>>

(***************************************************************************)
(* Lines 82-126: the answer arrives, resolveSPFRecord classifies it and    *)
(* parseSPFTree books it in the context.                                   *)
(***************************************************************************)
\* lines 83-84
VoidCount(res, count) == IF res.isVoid THEN count + 1 ELSE count

\* mutant: the error is reported once, when the limit is first passed
VoidErrorOnce(errs, res, count, domain) ==
    IF res.isVoid /\ count = VoidLimit + 1
    THEN Append(errs, VoidError(count, domain))
    ELSE errs

\* lines 85-87, count being the count after line 84
VoidErrors(errs, res, count, domain) ==
    IF res.isVoid /\ count > VoidLimit
    THEN Append(errs, VoidError(count, domain))
    ELSE errs

\* mutant: an answer without an SPF record is passed over in silence
NxdomainWarningOnly(warns, err, domain) ==
    IF err = "nxdomain" THEN Append(warns, NxdomainWarning(domain)) ELSE warns

\* mutant: the warning of a missing domain is put before the others
NoRecordWarningsFirst(warns, err, domain) ==
    IF err = "nxdomain" THEN <<NxdomainWarning(domain)>> \o warns
    ELSE IF err = "no-spf" THEN Append(warns, NoSpfWarning(domain))
    ELSE warns

\* lines 97-101
NoRecordWarnings(warns, err, domain) ==
    IF err = "nxdomain" THEN Append(warns, NxdomainWarning(domain))
    ELSE IF err = "no-spf" THEN Append(warns, NoSpfWarning(domain))
    ELSE warns

\* mutant: a record of a wrong format starts the list of errors anew
ShapeErrorsAnew(errs, record, domain) ==
    LET e1 == IF ~StartsWithSpf(record) THEN <<FormatError(domain)>> ELSE errs
    IN  IF record.octets > MaxOctets
        THEN Append(e1, LengthError(record.octets, domain))
        ELSE e1

\* lines 108-115
ShapeErrors(errs, record, domain) ==
    LET e1 == IF ~StartsWithSpf(record) THEN Append(errs, FormatError(domain)) ELSE errs
    IN  IF record.octets > MaxOctets
        THEN Append(e1, LengthError(record.octets, domain))
        ELSE e1

\* mutant: the warning is given above the error limit too
ShapeWarningsAbove(warns, record, domain) ==
    IF record.octets > WarnOctets
    THEN Append(warns, LengthWarning(record.octets, domain))
    ELSE warns

\* lines 116-118
ShapeWarnings(warns, record, domain) ==
    IF record.octets <= MaxOctets /\ record.octets > WarnOctets
    THEN Append(warns, LengthWarning(record.octets, domain))
    ELSE warns

\* mutant: the fetched domain is not marked
NotMarked(visited, domain) == visited

\* line 120: visited.add(domain)
MarkVisited(visited, domain) == visited \cup {domain}

Resolved(resp) == resolveSPFRecord(Top.domain, Top.depth, Top.visited, resp)

\* line 80 and line 17: resolveSPFRecord adds the domain to the copy it got
AfterResolve(visited, domain) == CallerVisited(visited, visited \cup {domain})

Awaiting(pc) == Running /\ Top.pc = pc

\* the part of the three outcomes of the answer that they share
Answered(resp) ==
    /\ dns' = (Top.domain :> resp) @@ dns
    /\ voidLookups' = VoidCount(Resolved(resp), voidLookups)
    /\ UNCHANGED <<queries, ui, session>>

\* lines 91-94
ReplyMultiple ==
    /\ Awaiting("fetch")
    /\ \E resp \in Answers(Top.domain) :
        /\ Resolved(resp).error = "multiple-spf"
        /\ Answered(resp)
        /\ errors' = Append(VoidErrors(errors, Resolved(resp), voidLookups', Top.domain),
                            MultipleError(Top.domain))
        /\ stack' = Caller
        /\ ret' = Null(AfterResolve(Top.visited, Top.domain))
        /\ UNCHANGED warnings

\* lines 96-103
ReplyNoRecord ==
    /\ Awaiting("fetch")
    /\ \E resp \in Answers(Top.domain) :
        /\ Resolved(resp).error # "multiple-spf"
        /\ Resolved(resp).record = NoRecord
        /\ Answered(resp)
        /\ errors' = VoidErrors(errors, Resolved(resp), voidLookups', Top.domain)
        /\ warnings' = NoRecordWarnings(warnings, Resolved(resp).error, Top.domain)
        /\ stack' = Caller
        /\ ret' = Null(AfterResolve(Top.visited, Top.domain))

\* lines 105-126
ReplyRecord ==
    /\ Awaiting("fetch")
    /\ \E resp \in Answers(Top.domain) :
        LET record == Resolved(resp).record IN
        /\ Resolved(resp).error # "multiple-spf"
        /\ record # NoRecord
        /\ Answered(resp)
        /\ errors' = ShapeErrors(VoidErrors(errors, Resolved(resp), voidLookups', Top.domain),
                                 record, Top.domain)
        /\ warnings' = ShapeWarnings(warnings, record, Top.domain)
        /\ stack' = SetTop([Top EXCEPT
               !.pc = "loop",
               !.record = record,
               !.visited = MarkVisited(AfterResolve(Top.visited, Top.domain), Top.domain),
               !.mechanisms = record.toks,
               !.i = 1])
        /\ UNCHANGED ret

(***************************************************************************)
(* Lines 128-266: the token loop, one iteration an action.  i is the index *)
(* of the token in mechanisms, counted from 1.                             *)
(***************************************************************************)
InLoop == Awaiting("loop") /\ Top.i <= Len(Top.mechanisms)
Token == Top.mechanisms[Top.i]
AtToken(kind) == InLoop /\ ~Top.allFound /\ TokenKind(Token) = kind

\* mutant: the loop index is not advanced
StayAtToken(f) == SetTop(f)

Advance(f) == SetTop([f EXCEPT !.i = f.i + 1])
PushChild(f, e) == [f EXCEPT !.children = Append(f.children, e)]

\* lines 132-135
SkipAfterAll ==
    /\ InLoop
    /\ Top.allFound
    /\ warnings' = Append(warnings, AfterAllWarning(Token, Top.domain))
    /\ stack' = Advance(Top)
    /\ UNCHANGED <<dns, ret, voidLookups, errors, queries>>
    /\ UNCHANGED <<ui, session>>

\* mutant: the target is resolved without being awaited: the caller goes on
\* to its next token at once
RecurseDetached ==
    /\ stack' = Append(SetTop([Top EXCEPT !.i = Top.i + 1,
                                          !.dnsLookups = Top.dnsLookups + 1]),
                       Frame(Token.arg, Top.depth + 1, Top.visited))
    /\ UNCHANGED <<dns, ret, voidLookups, warnings, errors, queries>>
    /\ UNCHANGED <<ui, session>>

\* mutant: the target is resolved with a visited set of its own
RecurseFresh ==
    /\ stack' = Append(SetTop([Top EXCEPT !.pc = "await",
                                          !.dnsLookups = Top.dnsLookups + 1]),
                       Frame(Token.arg, Top.depth + 1, {}))
    /\ UNCHANGED <<dns, ret, voidLookups, warnings, errors, queries>>
    /\ UNCHANGED <<ui, session>>

\* lines 145-150 and 167-175: the lookup is counted and the target is
\* resolved at depth + 1 on a copy of visited.  The test of allFound at
\* line 168 is never true: line 132 has left the iteration before.
Recurse ==
    /\ stack' = Append(SetTop([Top EXCEPT !.pc = "await",
                                          !.dnsLookups = Top.dnsLookups + 1]),
                       Frame(Token.arg, Top.depth + 1, Top.visited))
    /\ UNCHANGED <<dns, ret, voidLookups, warnings, errors, queries>>
    /\ UNCHANGED <<ui, session>>

ExpandInclude == AtToken("include") /\ Recurse

\* mutant: a redirect is not expanded but passed over as an unknown token
PassRedirect ==
    /\ AtToken("redirect")
    /\ warnings' = Append(warnings, UnknownWarning(Token, Top.domain))
    /\ stack' = Advance(Top)
    /\ UNCHANGED <<dns, ret, voidLookups, errors, queries>>
    /\ UNCHANGED <<ui, session>>

\* lines 167-175; the branch of lines 168-171 is written as the code has it
ExpandRedirect ==
    /\ AtToken("redirect")
    /\ IF Top.allFound
       THEN /\ warnings' = Append(warnings, RedirectIgnoredWarning(Top.domain))
            /\ stack' = Advance(Top)
            /\ UNCHANGED <<dns, ret, voidLookups, errors, queries>>
            /\ UNCHANGED <<ui, session>>
       ELSE Recurse

\* mutant: the element of a target carries the target's count only
ChildElementBare(t, child) ==
    IF TokenKind(t) = "include"
    THEN [type |-> "include", mechanism |-> WithQualifier(t), domain |-> t.arg,
          record |-> child.record, children |-> child.children,
          dnsLookups |-> child.dnsLookups, netblocks |-> child.netblocks,
          qualifier |-> getQualifier(t)]
    ELSE [type |-> "redirect", mechanism |-> t, domain |-> t.arg,
          record |-> child.record, children |-> child.children,
          dnsLookups |-> child.dnsLookups, netblocks |-> child.netblocks]

\* lines 152-161 and 177-185
ChildElement(t, child) ==
    IF TokenKind(t) = "include"
    THEN [type |-> "include", mechanism |-> WithQualifier(t), domain |-> t.arg,
          record |-> child.record, children |-> child.children,
          dnsLookups |-> child.dnsLookups + 1, netblocks |-> child.netblocks,
          qualifier |-> getQualifier(t)]
    ELSE [type |-> "redirect", mechanism |-> t, domain |-> t.arg,
          record |-> child.record, children |-> child.children,
          dnsLookups |-> child.dnsLookups + 1, netblocks |-> child.netblocks]

\* mutant: a call that returned null ends the loop of its caller
MergeOrBreak(f, r) ==
    LET g == [f EXCEPT !.pc = "loop",
                       !.visited = CallerVisited(f.visited, r.visited)]
    IN  IF r.kind = "node"
        THEN [g EXCEPT !.children = Append(f.children,
                                           ChildElement(f.mechanisms[f.i], r.node)),
                       !.dnsLookups = f.dnsLookups + r.node.dnsLookups,
                       !.netblocks = f.netblocks \o r.node.netblocks]
        ELSE [g EXCEPT !.i = Len(f.mechanisms)]

\* mutant: the count and the blocks of the node are merged, but no element
\* is appended for it
MergeDropped(f, r) ==
    LET g == [f EXCEPT !.pc = "loop",
                       !.visited = CallerVisited(f.visited, r.visited)]
    IN  IF r.kind = "node"
        THEN [g EXCEPT !.dnsLookups = f.dnsLookups + r.node.dnsLookups,
                       !.netblocks = f.netblocks \o r.node.netblocks]
        ELSE g

\* lines 151-164 and 176-188: the frame after the awaited call returned r
Merge(f, r) ==
    LET g == [f EXCEPT !.pc = "loop",
                       !.visited = CallerVisited(f.visited, r.visited)]
    IN  IF r.kind = "node"
        THEN [g EXCEPT !.children = Append(f.children,
                                           ChildElement(f.mechanisms[f.i], r.node)),
                       !.dnsLookups = f.dnsLookups + r.node.dnsLookups,
                       !.netblocks = f.netblocks \o r.node.netblocks]
        ELSE g

ChildReturned ==
    /\ Awaiting("await")
    /\ stack' = Advance(Merge(Top, ret))
    /\ ret' = Nothing
    /\ UNCHANGED <<dns, voidLookups, warnings, errors, queries>>
    /\ UNCHANGED <<ui, session>>

\* lines 191-201
TokenIp4 ==
    /\ AtToken("ip4")
    /\ stack' = Advance(PushChild(
           [Top EXCEPT !.netblocks = Append(Top.netblocks, Cidr(Token))],
           [type |-> "ip4", mechanism |-> WithQualifier(Token),
            value |-> Cidr(Token), count |-> calculateIPv4Count(Cidr(Token))]))
    /\ UNCHANGED <<dns, ret, voidLookups, warnings, errors, queries>>
    /\ UNCHANGED <<ui, session>>

\* mutant: the block of an ip6 token is collected like that of an ip4 token
TokenIp6Collected ==
    /\ AtToken("ip6")
    /\ stack' = Advance(PushChild(
           [Top EXCEPT !.netblocks = Append(Top.netblocks,
                                           [addr |-> Token.arg, pfx |-> Token.pfx])],
           [type |-> "ip6", mechanism |-> WithQualifier(Token),
            value |-> [addr |-> Token.arg, pfx |-> Token.pfx]]))
    /\ UNCHANGED <<dns, ret, voidLookups, warnings, errors, queries>>
    /\ UNCHANGED <<ui, session>>

\* lines 203-210
TokenIp6 ==
    /\ AtToken("ip6")
    /\ stack' = Advance(PushChild(Top,
           [type |-> "ip6", mechanism |-> WithQualifier(Token),
            value |-> [addr |-> Token.arg, pfx |-> Token.pfx]]))
    /\ UNCHANGED <<dns, ret, voidLookups, warnings, errors, queries>>
    /\ UNCHANGED <<ui, session>>

\* the element of a ptr, a, mx or exists token
Counted(type, t) == [type |-> type, mechanism |-> t, dnsLookups |-> 1]
\* mutant: the lookup of a ptr, a, mx or exists token is not counted
NotCounted(f) == f
CountLookup(f) == [f EXCEPT !.dnsLookups = f.dnsLookups + 1]

\* lines 212-220
TokenPtr ==
    /\ AtToken("ptr")
    /\ warnings' = Append(warnings, PtrWarning(Top.domain))
    /\ stack' = Advance(PushChild(CountLookup(Top), Counted("ptr", Token)))
    /\ UNCHANGED <<dns, ret, voidLookups, errors, queries>>
    /\ UNCHANGED <<ui, session>>

\* lines 222-229
TokenA ==
    /\ AtToken("a")
    /\ stack' = Advance(PushChild(CountLookup(Top), Counted("a", Token)))
    /\ UNCHANGED <<dns, ret, voidLookups, warnings, errors, queries>>
    /\ UNCHANGED <<ui, session>>

\* mutant: an mx token is counted without a warning
TokenMxSilent ==
    /\ AtToken("mx")
    /\ stack' = Advance(PushChild(CountLookup(Top), Counted("mx", Token)))
    /\ UNCHANGED <<dns, ret, voidLookups, warnings, errors, queries>>
    /\ UNCHANGED <<ui, session>>

\* lines 231-239
TokenMx ==
    /\ AtToken("mx")
    /\ warnings' = Append(warnings, MxWarning(Top.domain))
    /\ stack' = Advance(PushChild(CountLookup(Top), Counted("mx", Token)))
    /\ UNCHANGED <<dns, ret, voidLookups, errors, queries>>
    /\ UNCHANGED <<ui, session>>

\* lines 241-248
TokenExists ==
    /\ AtToken("exists")
    /\ stack' = Advance(PushChild(CountLookup(Top), Counted("exists", Token)))
    /\ UNCHANGED <<dns, ret, voidLookups, warnings, errors, queries>>
    /\ UNCHANGED <<ui, session>>

\* mutant: the all token is not remembered
AllForgotten(f) == f

\* line 251: allFound = true
MarkAll(f) == [f EXCEPT !.allFound = TRUE]

\* lines 250-261
TokenAll ==
    /\ AtToken("all")
    /\ stack' = Advance(PushChild(MarkAll(Top),
           [type |-> "all", mechanism |-> Token, qualifier |-> AllQualifier(Token),
            position |-> Top.i - 1]))
    /\ UNCHANGED <<dns, ret, voidLookups, warnings, errors, queries>>
    /\ UNCHANGED <<ui, session>>

\* mutant: an unknown token is passed over in silence
TokenUnknownSilent ==
    /\ AtToken("unknown")
    /\ stack' = Advance(Top)
    /\ UNCHANGED <<dns, ret, voidLookups, warnings, errors, queries>>
    /\ UNCHANGED <<ui, session>>

\* lines 263-265
TokenUnknown ==
    /\ AtToken("unknown")
    /\ warnings' = Append(warnings, UnknownWarning(Token, Top.domain))
    /\ stack' = Advance(Top)
    /\ UNCHANGED <<dns, ret, voidLookups, errors, queries>>
    /\ UNCHANGED <<ui, session>>

\* a token that starts with v=spf1 falls through the whole chain
TokenVersion ==
    /\ AtToken("version")
    /\ stack' = Advance(Top)
    /\ UNCHANGED <<dns, ret, voidLookups, warnings, errors, queries>>
    /\ UNCHANGED <<ui, session>>

\* lines 268-277
ReturnNode ==
    /\ Awaiting("loop")
    /\ Top.i > Len(Top.mechanisms)
    /\ stack' = Caller
    /\ ret' = Returned(Node(Top), Top.visited)
    /\ UNCHANGED <<dns, voidLookups, warnings, errors, queries>>
    /\ UNCHANGED <<ui, session>>

(***************************************************************************)
(* Lines 412-451: checkSPF after parseSPFTree has returned.                *)
(***************************************************************************)
\* line 429: [...new Set(netblocks)], in the order of first occurrence
Unique(s) ==
    LET first == {k \in 1..Len(s) : \A j \in 1..(k - 1) : s[j] # s[k]}
    IN  [n \in 1..Cardinality(first) |->
            s[CHOOSE k \in first : Cardinality({j \in first : j <= k}) = n]]

\* lines 419-422: netblockCount[nb]
Occurrences(s, nb) == Cardinality({k \in 1..Len(s) : s[k] = nb})

\* mutant: a block that occurs once is a duplicate too
DuplicatesFromOne(netblocks) ==
    LET d == SelectSeq(Unique(netblocks), LAMBDA nb : Occurrences(netblocks, nb) >= 1)
    IN  [k \in 1..Len(d) |-> [netblock |-> d[k], count |-> Occurrences(netblocks, d[k])]]

\* lines 424-426
Duplicates(netblocks) ==
    LET d == SelectSeq(Unique(netblocks), LAMBDA nb : Occurrences(netblocks, nb) > 1)
    IN  [k \in 1..Len(d) |-> [netblock |-> d[k], count |-> Occurrences(netblocks, d[k])]]

RECURSIVE SumCounts(_)
SumCounts(s) ==
    IF s = <<>> THEN 0
    ELSE SumCounts(SubSeq(s, 1, Len(s) - 1)) + calculateIPv4Count(s[Len(s)])

\* mutant: a block is counted as often as it occurs
TotalWithRepeats(netblocks) == SumCounts(netblocks)

\* lines 429-432
TotalIPv4Count(netblocks) == SumCounts(Unique(netblocks))

\* lines 434-443: the object of setResult; the node's warnings and errors
\* are the arrays of the context and its voidLookups the final counter
AuditResult(spfTree) ==
    [kind |-> "result",
     tree |-> spfTree,
     dnsLookups |-> spfTree.dnsLookups,
     netblockCount |-> Len(Unique(spfTree.netblocks)),
     ipv4Count |-> TotalIPv4Count(spfTree.netblocks),
     duplicates |-> Duplicates(spfTree.netblocks),
     warnings |-> warnings,
     errors |-> errors,
     voidLookups |-> voidLookups]

checkSPF ==
    /\ Done
    /\ active
    /\ IF ret.kind # "node"
       THEN error' = NotFound /\ result' = result
       ELSE result' = AuditResult(ret.node) /\ error' = error
    /\ loading' = FALSE
    /\ active' = FALSE
    /\ UNCHANGED <<dns, stack, ret, voidLookups, warnings, errors, queries,
                   others, calls>>

(***************************************************************************)
(* Lines 534-587 and 613-620: what the component shows of a result.        *)
(***************************************************************************)
\* mutant: the lookup count is looked at before the errors
BannerBudgetFirst(r) ==
    IF r.dnsLookups > LookupBudget THEN "lookup-budget"
    ELSE IF Len(r.errors) > 0 THEN "hard-failure"
    ELSE "valid"

\* lines 537-587: the one banner at the head of the report
Banner(r) ==
    IF Len(r.errors) > 0 THEN "hard-failure"
    ELSE IF r.dnsLookups > LookupBudget THEN "lookup-budget"
    ELSE "valid"

\* lines 295-303: getQualifierText, the text up to the blank
getQualifierText(qualifier) ==
    IF qualifier = "softfail" THEN All("~")
    ELSE IF qualifier = "fail" THEN All("-")
    ELSE IF qualifier = "neutral" THEN All("?")
    ELSE All("+")

\* lines 305-345: the mechanism text shown for an element; of an include
\* element the domain and the record are shown, its mechanism field is not
Display(e) ==
    IF e.type = "all" THEN getQualifierText(e.qualifier) ELSE e.mechanism

\* lines 616-620: the colour of the count n/10
LookupsColour(r) == IF r.dnsLookups <= LookupBudget THEN "green" ELSE "red"

Next ==
    \/ GuardReject
    \/ Fetch
    \/ ReplyMultiple
    \/ ReplyNoRecord
    \/ ReplyRecord
    \/ SkipAfterAll
    \/ ExpandInclude
    \/ ExpandRedirect
    \/ ChildReturned
    \/ TokenIp4
    \/ TokenIp6
    \/ TokenPtr
    \/ TokenA
    \/ TokenMx
    \/ TokenExists
    \/ TokenAll
    \/ TokenUnknown
    \/ TokenVersion
    \/ ReturnNode
    \/ checkSPF

Spec == Init /\ [][Next]_vars

\* every step of the code is taken in the end: a DNS query answers or
\* fails, and a continuation that is ready runs
FairSpec == Spec /\ WF_vars(Next)

(***************************************************************************)
(* Several calls of checkSPF.  The button is disabled while loading is     *)
(* set, but the Enter key (lines 454-458) calls checkSPF whatever the      *)
(* state, so a call can start while another awaits a fetch.  Each call has *)
(* its own stack, returned value, context and queries; the variables hold  *)
(* those of the call that runs, others those of the calls that do not.     *)
(***************************************************************************)
Current ==
    [stack |-> stack, ret |-> ret, voidLookups |-> voidLookups,
     warnings |-> warnings, errors |-> errors, queries |-> queries,
     active |-> active]

\* the running call waits: for its fetch, for the continuation after an
\* awaited call, or for the continuation of checkSPF at line 410
AtAwait ==
    \/ Running /\ Top.pc \in {"fetch", "await"}
    \/ Done /\ active

\* the JavaScript thread is free to run an event handler or another call
Idle == ~active \/ AtAwait

\* mutant: the context and the visited set of the call before are kept
StartCheckShared ==
    /\ calls < MaxCalls
    /\ Idle
    /\ others' = IF calls = 0 THEN others ELSE Append(others, Current)
    /\ calls' = calls + 1
    /\ loading' = TRUE
    /\ error' = NoError
    /\ result' = NoResult
    /\ active' = TRUE
    /\ stack' = <<Frame(0, 0, IF stack = <<>> THEN {} ELSE stack[1].visited)>>
    /\ ret' = Nothing
    /\ queries' = <<>>
    /\ UNCHANGED <<dns, voidLookups, warnings, errors>>

\* lines 398-410 and 74: checkSPF is called with a domain and calls
\* parseSPFTree, whose defaults give depth 0, a new visited set and a new
\* context
StartCheck ==
    /\ calls < MaxCalls
    /\ Idle
    /\ others' = IF calls = 0 THEN others ELSE Append(others, Current)
    /\ calls' = calls + 1
    /\ loading' = TRUE
    /\ error' = NoError
    /\ result' = NoResult
    /\ active' = TRUE
    /\ stack' = <<Frame(0, 0, {})>>
    /\ ret' = Nothing
    /\ voidLookups' = 0
    /\ warnings' = <<>>
    /\ errors' = <<>>
    /\ queries' = <<>>
    /\ UNCHANGED dns

\* lines 399-402: checkSPF is called with an empty input
EmptyCheck ==
    /\ Idle
    /\ error' = EnterDomain
    /\ UNCHANGED <<dns, stack, ret, voidLookups, warnings, errors, queries,
                   result, loading, session>>

\* the running call waits and a call that was waiting goes on
Switch ==
    /\ Idle
    /\ \E k \in 1..Len(others) :
          /\ others[k].active
          /\ others' = [others EXCEPT ![k] = Current]
          /\ stack' = others[k].stack
          /\ ret' = others[k].ret
          /\ voidLookups' = others[k].voidLookups
          /\ warnings' = others[k].warnings
          /\ errors' = others[k].errors
          /\ queries' = others[k].queries
          /\ active' = others[k].active
    /\ UNCHANGED <<dns, ui, calls>>

\* the component as constructed (lines 392-396): no call yet
OverlapInit ==
    /\ dns \in OverlapZones
    /\ result = NoResult
    /\ error = NoError
    /\ loading = FALSE
    /\ active = FALSE
    /\ others = <<>>
    /\ calls = 0
    /\ stack = <<>>
    /\ ret = Nothing
    /\ voidLookups = 0
    /\ warnings = <<>>
    /\ errors = <<>>
    /\ queries = <<>>

OverlapNext ==
    \/ StartCheck
    \/ EmptyCheck
    \/ Switch
    \/ Next

OverlapSpec == OverlapInit /\ [][OverlapNext]_vars

\* the check has ended and the same domain is checked again
Recheck == ~active /\ StartCheck

RerunNext ==
    \/ Recheck
    \/ Next

\* a check and the checks of the same domain after it, the names answering
\* as they did before
RerunSpec == Init /\ [][RerunNext]_vars

(***************************************************************************)
(* Properties.                                                             *)
(***************************************************************************)
Last(s) == s[Len(s)]
AtEntry == Awaiting("entry")
\* the domains of the calls that enclose the running call
AncestorDomains == {stack[k].domain : k \in 1..(Len(stack) - 1)}
\* the running call returns null in this step
ReturnsNull == stack' = Caller /\ ret'.kind = "null"

\* C1: a call entered with depth > 10, or with a domain that is in its
\* visited set, appends exactly one depth/cycle error, returns no node and
\* issues no DNS query.
C1_GuardRejects ==
    [][ (AtEntry /\ (Top.depth > MaxDepth \/ Top.domain \in Top.visited))
        => /\ errors' = Append(errors, DepthError(Top.domain))
           /\ ReturnsNull
           /\ queries' = queries
           /\ UNCHANGED <<warnings, voidLookups, dns>> ]_vars

\* a call was just rejected at depth 11
C1_Witness ==
    /\ Len(stack) = MaxDepth + 1
    /\ ret.kind = "null"
    /\ errors # <<>>
    /\ Last(errors) = DepthError(MaxDepth + 1)
    /\ Len(queries) = MaxDepth + 1

\* the domain nodes under a list of children
Nested(children) ==
    SelectSeq(children, LAMBDA e : e.type \in {"include", "redirect"})

\* the number of domain nodes on the longest path down from a node with
\* these children, the node itself included
RECURSIVE Height(_)
Height(children) ==
    LET below == Nested(children)
        heights == {Height(below[k].children) : k \in 1..Len(below)}
    IN  1 + (IF heights = {} THEN 0 ELSE CHOOSE h \in heights : \A g \in heights : g <= h)

IsChain(n) == dns = ChainZone(n, "include") \/ dns = ChainZone(n, "redirect")

\* C2: in a chain of more than 11 distinct domains the domains at depths 0
\* to 10 are fetched, in order, and give nodes, the call at depth 11 is
\* rejected with the one depth/cycle error of the resolution and nothing
\* deeper is visited; no call past its guard and no node is ever deeper
\* than 10.
C2_ChainStopsAtDepth11 ==
    /\ \A k \in 1..Len(stack) :
          /\ stack[k].depth = k - 1
          /\ stack[k].depth <= MaxDepth + 1
          /\ stack[k].pc # "entry" =>
                /\ stack[k].depth <= MaxDepth
                /\ Height(stack[k].children) <= MaxDepth + 1 - stack[k].depth
    /\ ret.kind = "node" => Height(ret.node.children) <= MaxDepth + 1 - Len(stack)
    /\ \A n \in (MaxDepth + 1)..ChainLen :
          (IsChain(n) /\ Done) =>
              /\ queries = [k \in 1..(MaxDepth + 1) |-> k - 1]
              /\ errors = <<DepthError(MaxDepth + 1)>>
              /\ ret.kind = "node"
              /\ Height(ret.node.children) = MaxDepth + 1

\* the chain of 12 includes has been resolved
C2_Witness ==
    /\ Done
    /\ dns = ChainZone(12, "include")
    /\ Len(queries) = 11
    /\ Len(errors) = 1

\* C3: whatever the zone (records that include themselves or each other,
\* chains of distinct domains longer than the depth limit), the top-level
\* resolution returns in the end, every DNS query answering or failing.
C3_Terminates == <>Done

\* a resolution that met a cycle or the depth limit has returned its tree
C3_Witness ==
    /\ Done
    /\ ret.kind = "node"
    /\ \E k \in 1..Len(errors) : errors[k].kind = "depth-or-cycle"

\* the domains of the calls on the stack up to the k-th
PathDomains(k) == {stack[j].domain : j \in 1..k}

\* C4: a domain that comes up again below itself (a record that includes
\* or redirects to itself, or a chain that leads back to an enclosing
\* domain) is rejected on that path: the call gets a depth/cycle error, is
\* not fetched and returns no node, so no domain is fetched twice on a path
\* and no node hangs below a node of the same domain.
C4_CycleRejected ==
    /\ [][ (AtEntry /\ Top.domain \in AncestorDomains)
           => /\ errors' = Append(errors, DepthError(Top.domain))
              /\ ReturnsNull
              /\ queries' = queries ]_vars
    /\ [](\A k \in 1..Len(stack) :
            /\ stack[k].pc # "entry" => stack[k].domain \notin PathDomains(k - 1)
            /\ \A c \in 1..Len(stack[k].children) :
                  stack[k].children[c].type \in {"include", "redirect"}
                  => stack[k].children[c].domain \notin PathDomains(k))

\* the root's record named the root itself, directly or two hops down, and
\* the repeated call has just been rejected
C4_Witness ==
    /\ Len(stack) \in {1, 2}
    /\ Top.pc = "await"
    /\ Top.mechanisms[Top.i].arg = 0
    /\ ret.kind = "null"
    /\ Last(errors) = DepthError(0)
    /\ Len(queries) = Len(stack)

Min(a, b) == IF a <= b THEN a ELSE b

\* C5: the visited set is local to a branch.  A call's set is changed by
\* that call alone, when it marks its own domain after the fetch; a callee
\* starts from the set its caller has at the call; and a call whose domain
\* is on no enclosing call (and whose depth is within the limit) is
\* fetched without a cycle error, also when a sibling branch has resolved
\* the same domain before.
C5_VisitedBranchLocal ==
    [][ /\ \A k \in 1..Min(Len(stack), Len(stack')) :
              \/ stack'[k].visited = stack[k].visited
              \/ /\ k = Len(stack)
                 /\ stack[k].pc = "fetch"
                 /\ stack'[k].visited = stack[k].visited \cup {stack[k].domain}
        /\ Len(stack') > Len(stack) => stack'[Len(stack')].visited = Top.visited
        /\ (AtEntry /\ Top.depth <= MaxDepth /\ Top.domain \notin AncestorDomains)
              => /\ queries' = Append(queries, Top.domain)
                 /\ errors' = errors
                 /\ Len(stack') = Len(stack) ]_vars

\* one domain was fetched and expanded under two sibling tokens of the
\* root, and no error was recorded
C5_Witness ==
    /\ Done
    /\ ret.kind = "node"
    /\ errors = <<>>
    /\ Len(Nested(ret.node.children)) = 2
    /\ Nested(ret.node.children)[1].domain = Nested(ret.node.children)[2].domain
    /\ queries = <<0, 1, 1>>

\* the answer that the running call's query gets in this step
Reply == dns'[Top.domain]
\* the number of TXT strings of an answer that hold the version token
SpfCount(answer) ==
    Cardinality({k \in 1..Len(answer) :
        \E t \in 1..Len(answer[k].toks) : answer[k].toks[t].name = "v=spf1"})

\* C6: when the TXT answer of a domain holds two or more strings with
\* v=spf1, the call appends the PermError, returns no node and leaves the
\* void-lookup count and the warnings as they are.
C6_MultipleSpfIsPermError ==
    [][ (Awaiting("fetch") /\ Reply.net = "ok" /\ Reply.Status = 0
         /\ SpfCount(Reply.Answer) >= 2)
        => /\ errors' = Append(errors, MultipleError(Top.domain))
           /\ ReturnsNull
           /\ voidLookups' = voidLookups
           /\ warnings' = warnings ]_vars

\* an included domain with two SPF records has just been refused
C6_Witness ==
    /\ Len(stack) >= 1
    /\ ret.kind = "null"
    /\ errors # <<>>
    /\ Last(errors).kind = "multiple-spf"
    /\ SpfCount(dns[Last(errors).domain].Answer) = 2
    /\ voidLookups = 0

\* C7: every failed expansion (depth, cycle, multiple SPF records,
\* NXDOMAIN, no answer, no SPF record, SERVFAIL, transport failure) returns
\* no node and adds at least one entry to errors or warnings.
C7_FailureLeavesDiagnostic ==
    [][ (Running /\ ReturnsNull)
        => Len(errors') + Len(warnings') > Len(errors) + Len(warnings) ]_vars

\* C8: a failed include or redirect never aborts the enclosing resolution.
\* When the awaited call has returned null the caller goes on with the
\* next token of its record, with its children, netblocks and count as
\* they were; and a call that has fetched its record leaves only by
\* returning its node, after the last token of the record; so a resolution
\* whose root record was fetched ends with the root's node, whatever failed
\* below it.
C8_FailureDoesNotAbort ==
    /\ [](Done /\ resolveSPFRecord(0, 0, {}, dns[0]).record # NoRecord
            => ret.kind = "node" /\ ret.node.domain = 0)
    /\ [][ /\ (Awaiting("await") /\ ret.kind = "null")
               => /\ Len(stack') = Len(stack)
                  /\ stack'[Len(stack)] = [Top EXCEPT !.pc = "loop", !.i = Top.i + 1]
                  /\ SubSeq(stack', 1, Len(stack) - 1) = Caller
           /\ (Running /\ Top.pc \in {"loop", "await"} /\ Len(stack') < Len(stack))
               => /\ Top.pc = "loop"
                  /\ Top.i = Len(Top.mechanisms) + 1
                  /\ ret'.kind = "node"
                  /\ ret'.node.domain = Top.domain
                  /\ stack' = Caller ]_vars

\* both expansions of the root's record failed, one after the other, and
\* the root's node was returned all the same
C8_Witness ==
    /\ Done
    /\ ret.kind = "node"
    /\ queries = <<0, 1, 2>>
    /\ Nested(ret.node.children) = <<>>
    /\ ret.node.dnsLookups = 2

\* an answer that is NXDOMAIN or no answer: RCODE 3, or a body that is
\* neither NXDOMAIN nor SERVFAIL and has another RCODE than 0 or no TXT
\* string at all
IsVoidAnswer(resp) ==
    /\ resp.net = "ok"
    /\ \/ resp.Status = 3
       \/ resp.Status \notin {2, 3} /\ (resp.Status # 0 \/ resp.Answer = <<>>)

\* C9: the void-lookup count grows by exactly 1 when the answer of a call
\* is NXDOMAIN or no answer (Status 0 with an empty answer being no
\* answer), and is left unchanged by every other answer (SERVFAIL, HTTP or
\* transport failure, exception, no SPF record, multiple SPF records, a
\* fetched record) and by every other step, the guard's rejections
\* included.
C9_VoidCount ==
    [][ IF Awaiting("fetch") /\ IsVoidAnswer(Reply)
        THEN voidLookups' = voidLookups + 1
        ELSE voidLookups' = voidLookups ]_vars

\* a resolution whose includes met a SERVFAIL and a void answer, and
\* counted the one void lookup
C9_Witness ==
    /\ Done
    /\ voidLookups = 1
    /\ Len(queries) = 3
    /\ \E d \in DOMAIN dns : dns[d].Status = 2
    /\ \E d \in DOMAIN dns : IsVoidAnswer(dns[d])

Count(s, kind) == Cardinality({k \in 1..Len(s) : s[k].kind = kind})

\* C10: a void-limit error is appended at every void lookup that takes the
\* count above 2, with no deduplication: errors holds max(0, voidLookups -
\* 2) of them, naming the counts 3, 4, ... in order, so voidLookups > 2
\* implies that errors is not empty.
C10_VoidLimitErrors ==
    LET void == SelectSeq(errors, LAMBDA e : e.kind = "void-limit") IN
    /\ Len(void) = (IF voidLookups > VoidLimit THEN voidLookups - VoidLimit ELSE 0)
    /\ \A k \in 1..Len(void) : void[k].n = VoidLimit + k
    /\ voidLookups > VoidLimit => errors # <<>>

\* four void lookups, hence two void-limit errors
C10_Witness ==
    /\ voidLookups = 4
    /\ Count(errors, "void-limit") = 2

\* checkSPF has finished
Reported == ~loading

\* C11: when the check has finished, its caller holds the final context of
\* the resolution (errors, warnings and void-lookup count), whether the root
\* gave a node or not.
C11_ContextReachesReport ==
    Reported =>
        /\ result # NoResult
        /\ result.errors = errors
        /\ result.warnings = warnings
        /\ result.voidLookups = voidLookups

\* an all token stands before the token at hand
FollowsAll == InLoop /\ \E j \in 1..(Top.i - 1) : Top.mechanisms[j].name = "all"

\* C12: a token that follows the all token of its record adds nothing to
\* the lookup count, the netblocks or the children of its node, starts no
\* call and no DNS query, and appends exactly one after-all warning.
C12_AfterAllIgnored ==
    [][ FollowsAll
        => /\ warnings' = Append(warnings, AfterAllWarning(Token, Top.domain))
           /\ stack' = SetTop([Top EXCEPT !.i = Top.i + 1])
           /\ UNCHANGED <<queries, dns, errors, voidLookups, ret>> ]_vars

\* the record with a redirect and an ip4 token after its all token has been
\* parsed to its end
C12_Witness ==
    /\ Awaiting("loop")
    /\ Top.mechanisms = Mixed
    /\ Top.i = Len(Mixed) + 1
    /\ Count(warnings, "after-all") = 2
    /\ Len(Top.netblocks) = 2
    /\ Top.dnsLookups = 4

AtRedirect == InLoop /\ Token.name = "redirect=" /\ Token.q = ""

\* C13: a redirect= token after all is passed over with a warning: its
\* target is not called or queried and the count, the children and the
\* netblocks stay; a redirect= token with no all before it is counted and
\* its target is resolved at depth + 1.
C13_RedirectAfterAll ==
    [][ AtRedirect
        => IF FollowsAll
           THEN /\ Len(warnings') = Len(warnings) + 1
                /\ Len(stack') = Len(stack)
                /\ Top' = [Top EXCEPT !.i = Top.i + 1]
                /\ queries' = queries
                /\ dns' = dns
           ELSE /\ Len(stack') = Len(stack) + 1
                /\ Top' = Frame(Token.arg, Top.depth + 1, Top.visited)
                /\ stack'[Len(stack)] = [Top EXCEPT !.pc = "await",
                                                    !.dnsLookups = Top.dnsLookups + 1]
                /\ warnings' = warnings ]_vars

\* a redirect before any all is being expanded, and in the record it leads
\* to the redirect after all has just been passed over
C13_Witness ==
    /\ Len(stack) = 2
    /\ stack[1].pc = "await"
    /\ stack[1].mechanisms[stack[1].i] = Redirect(1)
    /\ \A j \in 1..stack[1].i : stack[1].mechanisms[j].name # "all"
    /\ Top.mechanisms = Mixed
    /\ Top.i = Len(Mixed)
    /\ Mixed[Top.i - 1] = Redirect(1)
    /\ Last(warnings) = AfterAllWarning(Redirect(1), 1)
    /\ Top.children[Len(Top.children)].type = "all"

\* C14: a redirect= token after all gets, besides the after-all warning, a
\* redirect-ignored warning of its own: two warnings.
C14_RedirectWarnedTwice ==
    [][ (AtRedirect /\ FollowsAll)
        => /\ Len(warnings') = Len(warnings) + 2
           /\ \E k \in (Len(warnings) + 1)..Len(warnings') :
                 warnings'[k] = RedirectIgnoredWarning(Top.domain) ]_vars

\* no all token stands at or before index j
BeforeAll(toks, j) == \A h \in 1..j : toks[h].name # "all"

\* the tokens that cost a DNS lookup
LookupNames == {"include:", "a", "mx", "ptr", "exists:"}
IsLookupToken(t) == t.name \in LookupNames \/ (t.name = "redirect=" /\ t.q = "")

\* the number of lookup tokens before all among the first n tokens
OwnLookups(toks, n) ==
    Cardinality({j \in 1..n : BeforeAll(toks, j) /\ IsLookupToken(toks[j])})

\* the lookups of a node, computed from its record and from its resolved
\* targets
RECURSIVE NodeLookups(_, _, _)
NodeLookups(toks, n, children) ==
    LET below == Nested(children)
        RECURSIVE Sum(_)
        Sum(k) == IF k = 0 THEN 0
                  ELSE Sum(k - 1) + NodeLookups(below[k].record.toks,
                                                Len(below[k].record.toks),
                                                below[k].children)
    IN  OwnLookups(toks, n) + Sum(Len(below))

\* the tokens a frame has dealt with: all before the token at hand, and
\* that token too once its target is awaited
Processed(f) == IF f.pc = "await" THEN f.i ELSE f.i - 1

InRecord(f) == f.pc \in {"loop", "await"}

\* C15: the lookup count of a node is the number of include, redirect, a,
\* mx, ptr and exists tokens before all in its record, each counted once
\* whether or not its target resolved, plus the counts of the targets that
\* resolved to a node; ip4, ip6, all and unknown tokens count nothing.
C15_LookupCount ==
    /\ ret.kind = "node"
       => ret.node.dnsLookups = NodeLookups(ret.node.record.toks,
                                            Len(ret.node.record.toks),
                                            ret.node.children)
    /\ \A k \in 1..Len(stack) :
          InRecord(stack[k])
          => stack[k].dnsLookups = NodeLookups(stack[k].mechanisms,
                                               Processed(stack[k]),
                                               stack[k].children)

\* the root has two includes: one gave the record with four lookup tokens,
\* the other gave no node
C15_Witness ==
    /\ Done
    /\ ret.kind = "node"
    /\ OwnLookups(ret.node.record.toks, Len(ret.node.record.toks)) = 2
    /\ Len(ret.node.children) = 1
    /\ ret.node.children[1].type = "include"
    /\ ret.node.children[1].record.toks = Mixed
    /\ ret.node.dnsLookups = 6

\* the ip4 blocks of the first n tokens, as far as they stand before all
RECURSIVE Ip4Blocks(_, _)
Ip4Blocks(toks, n) ==
    IF n = 0 THEN <<>>
    ELSE IF toks[n].name = "ip4:" /\ BeforeAll(toks, n)
         THEN Append(Ip4Blocks(toks, n - 1),
                     [addr |-> toks[n].arg,
                      pfx |-> IF toks[n].pfx = NoPfx THEN 32 ELSE toks[n].pfx])
         ELSE Ip4Blocks(toks, n - 1)

\* the blocks of a node, computed from its children in their order
RECURSIVE NodeNetblocks(_)
NodeNetblocks(children) ==
    IF children = <<>> THEN <<>>
    ELSE LET e == Last(children)
             front == NodeNetblocks(SubSeq(children, 1, Len(children) - 1))
         IN  IF e.type = "ip4" THEN Append(front, e.value)
             ELSE IF e.type \in {"include", "redirect"}
                  THEN front \o NodeNetblocks(e.children)
                  ELSE front

Ip4Values(children) ==
    LET own == SelectSeq(children, LAMBDA e : e.type = "ip4")
    IN  [k \in 1..Len(own) |-> own[k].value]

NetblocksOk(toks, n, children, netblocks) ==
    /\ netblocks = NodeNetblocks(children)
    /\ Ip4Values(children) = Ip4Blocks(toks, n)

\* C16: the netblocks of a node are the blocks of its own ip4 tokens and
\* the netblocks of its resolved include and redirect targets, in the order
\* of the record and with repetitions kept; an ip6 token adds nothing.
C16_Netblocks ==
    /\ ret.kind = "node"
       => NetblocksOk(ret.node.record.toks, Len(ret.node.record.toks),
                      ret.node.children, ret.node.netblocks)
    /\ \A k \in 1..Len(stack) :
          InRecord(stack[k])
          => NetblocksOk(stack[k].mechanisms, Processed(stack[k]),
                         stack[k].children, stack[k].netblocks)

\* the root has a block of its own and reaches the record with two ip4
\* tokens and an ip6 token twice, by an include and by a redirect
C16_Witness ==
    /\ Done
    /\ ret.kind = "node"
    /\ Len(ret.node.netblocks) = 5
    /\ Len(Nested(ret.node.children)) = 2
    /\ Nested(ret.node.children)[1].type = "include"
    /\ Nested(ret.node.children)[2].type = "redirect"
    /\ Nested(ret.node.children)[2].record.toks = Mixed
    /\ ret.node.netblocks[2] = ret.node.netblocks[4]
    /\ ret.node.netblocks[1] # ret.node.netblocks[2]

\* the check has finished with a report
HasResult == Reported /\ result # NoResult

\* how often x stands in s
Times(s, x) == Cardinality({k \in 1..Len(s) : s[k] = x})
Range(s) == {s[k] : k \in 1..Len(s)}

\* C17: the report names a block as a duplicate exactly when it stands more
\* than once among the blocks of the whole tree, once, with the number of
\* times it stands there.  A root with an ip4 block and an include of a
\* domain with the same block gives 1 lookup, the one duplicate with count
\* 2, 1 unique block and 256 addresses.
C17_Duplicates ==
    HasResult =>
        LET blocks == NodeNetblocks(result.tree.children)
            dups == result.duplicates
        IN  /\ \A nb \in Range(blocks) :
                  Times(blocks, nb) > 1 <=> \E k \in 1..Len(dups) : dups[k].netblock = nb
            /\ \A k \in 1..Len(dups) :
                  /\ dups[k].count = Times(blocks, dups[k].netblock)
                  /\ dups[k].count > 1
                  /\ \A j \in 1..Len(dups) : dups[j].netblock = dups[k].netblock => j = k
            /\ dns = DupZone
               => /\ result.dnsLookups = 1
                  /\ dups = <<[netblock |-> [addr |-> 10, pfx |-> 24], count |-> 2]>>
                  /\ result.netblockCount = 1
                  /\ result.ipv4Count = 256

\* the report of the root and the include with the same block
C17_Witness ==
    /\ HasResult
    /\ dns = DupZone
    /\ Len(result.tree.netblocks) = 2
    /\ Len(result.duplicates) = 1

\* the sum of the sizes of the blocks of a set
RECURSIVE SetSum(_)
SetSum(S) ==
    IF S = {} THEN 0
    ELSE LET nb == CHOOSE x \in S : TRUE
         IN  2 ^ (32 - nb.pfx) + SetSum(S \ {nb})

\* C18: the number of unique blocks is the size of the set of the tree's
\* blocks, and the address total is the sum of 2^(32 - prefix) over that
\* set, a repeated block counted once; a /24 and a /32 total 257.
C18_Totals ==
    HasResult =>
        LET blocks == Range(result.tree.netblocks)
        IN  /\ result.netblockCount = Cardinality(blocks)
            /\ result.ipv4Count = SetSum(blocks)
            /\ dns = SumZone => result.netblockCount = 2 /\ result.ipv4Count = 257

\* a /24 that stands twice in the tree and a /32: two unique blocks, 257
\* addresses
C18_Witness ==
    /\ HasResult
    /\ Len(result.tree.netblocks) = 3
    /\ result.netblockCount = 2
    /\ result.ipv4Count = 257
    /\ Len(result.duplicates) = 1

AtIp4 == InLoop /\ ~FollowsAll /\ Token.name = "ip4:"
Suffixed(netblocks) == \A k \in 1..Len(netblocks) : netblocks[k].pfx \in 0..32

OneRecord ==
    /\ Awaiting("fetch")
    /\ Reply.net = "ok"
    /\ Reply.Status = 0
    /\ SpfCount(Reply.Answer) = 1
TheRecord ==
    Reply.Answer[CHOOSE k \in 1..Len(Reply.Answer) :
                     \E t \in 1..Len(Reply.Answer[k].toks) :
                         Reply.Answer[k].toks[t].name = "v=spf1"]
\* the entries a step appends
Appended(old, new) == SubSeq(new, Len(old) + 1, Len(new))
\* the call goes on to parse the record r
Parsed(r) ==
    /\ Len(stack') = Len(stack)
    /\ Top'.pc = "loop"
    /\ Top'.record = r
    /\ Top'.mechanisms = r.toks
    /\ Top'.i = 1
\* the domain answered with one SPF record
RootHasRecord ==
    /\ 0 \in DOMAIN dns
    /\ dns[0].net = "ok"
    /\ dns[0].Status = 0
    /\ SpfCount(dns[0].Answer) = 1

\* C20, as stated: a record that does not start with v=spf1 gets a format
\* error, one of more than 512 octets a length error and one of more than
\* 450 octets a length warning; in each case the record is parsed and the
\* node returned.
C20_ShapeChecksAsStated ==
    /\ [](Done /\ RootHasRecord => ret.kind = "node")
    /\ [][ OneRecord
           => /\ TheRecord.toks[1].name # "v=spf1"
                 => Count(Appended(errors, errors'), "format") = 1
              /\ TheRecord.octets > MaxOctets
                 => Count(Appended(errors, errors'), "length") = 1
              /\ TheRecord.octets > WarnOctets
                 => Count(Appended(warnings, warnings'), "length") = 1
              /\ Parsed(TheRecord) ]_vars

\* C20: the shape checks never abort.  A record that does not start with
\* v=spf1 gets a format error, one of more than 512 octets a length error,
\* and one of more than 450 but at most 512 octets a length warning; no
\* other record gets any of these; in each case the record is parsed and
\* the node returned.
C20_ShapeChecksAdvisory ==
    /\ [](Done /\ RootHasRecord => ret.kind = "node")
    /\ [][ OneRecord
           => LET r == TheRecord
                  format == IF r.toks[1].name # "v=spf1"
                            THEN <<FormatError(Top.domain)>> ELSE <<>>
                  long == IF r.octets > MaxOctets
                          THEN <<LengthError(r.octets, Top.domain)>> ELSE <<>>
                  longish == IF r.octets > WarnOctets /\ r.octets <= MaxOctets
                             THEN <<LengthWarning(r.octets, Top.domain)>> ELSE <<>>
              IN  /\ errors' = errors \o format \o long
                  /\ warnings' = warnings \o longish
                  /\ Parsed(r) ]_vars

\* a record of 513 octets that does not start with v=spf1 gave its node,
\* the two errors and no warning
C20_Witness ==
    /\ Done
    /\ ret.kind = "node"
    /\ ret.node.record = Txt(Misplaced, MaxOctets + 1)
    /\ errors = <<FormatError(0), LengthError(MaxOctets + 1, 0)>>
    /\ Count(warnings, "length") = 0
    /\ Count(warnings, "unknown") = 1

\* the type of the element a token gives, if it gives one
ElementType(t) ==
    IF t.name = "include:" THEN "include"
    ELSE IF t.name = "redirect=" THEN "redirect"
    ELSE IF t.name = "ip4:" THEN "ip4"
    ELSE IF t.name = "ip6:" THEN "ip6"
    ELSE IF t.name = "exists:" THEN "exists"
    ELSE t.name

\* the record of domain d was fetched and is the one SPF record of its answer
RecordFetched(d, record) ==
    /\ d \in DOMAIN dns
    /\ dns[d].net = "ok"
    /\ dns[d].Status = 0
    /\ SpfCount(dns[d].Answer) = 1
    /\ \E k \in 1..Len(dns[d].Answer) : dns[d].Answer[k] = record

\* C21: when the awaited call of an include or redirect token has returned,
\* an element for the target is appended to the children exactly if a node
\* came back; every element is appended at the end, for the token at hand,
\* before the loop moves to the next token, so the children stand in the
\* order of their tokens; and a node exists only for a domain whose answer
\* was fetched and holds exactly one SPF record.
C21_ChildIffNode ==
    /\ [](/\ ret.kind = "node" => RecordFetched(ret.node.domain, ret.node.record)
          /\ \A k \in 1..Len(stack) :
                InRecord(stack[k]) => RecordFetched(stack[k].domain, stack[k].record))
    /\ [][ /\ Awaiting("await")
              => /\ Len(stack') = Len(stack)
                 /\ IF ret.kind = "node"
                    THEN /\ Len(Top'.children) = Len(Top.children) + 1
                         /\ SubSeq(Top'.children, 1, Len(Top.children)) = Top.children
                         /\ Last(Top'.children).type = ElementType(Token)
                         /\ Last(Top'.children).domain = Token.arg
                         /\ Last(Top'.children).domain = ret.node.domain
                         /\ Last(Top'.children).record = ret.node.record
                         /\ Last(Top'.children).children = ret.node.children
                    ELSE Top'.children = Top.children
           /\ (Awaiting("loop") /\ Len(stack') = Len(stack)
               /\ Top'.children # Top.children)
              => /\ Len(Top'.children) = Len(Top.children) + 1
                 /\ SubSeq(Top'.children, 1, Len(Top.children)) = Top.children
                 /\ Last(Top'.children).type = ElementType(Token)
                 /\ Top'.i = Top.i + 1 ]_vars

\* of the two includes of the root the first gave no node and the second
\* gave one: the one child is the element of the second
C21_Witness ==
    /\ Len(stack) = 1
    /\ Awaiting("loop")
    /\ Len(Top.mechanisms) = 3
    /\ Top.i = 4
    /\ Top.mechanisms[2].name = "include:"
    /\ Top.mechanisms[3].name = "include:"
    /\ Len(Top.children) = 1
    /\ Top.children[1].domain = Top.mechanisms[3].arg
    /\ Top.mechanisms[2].arg # Top.mechanisms[3].arg

ErrorKinds == {"depth-or-cycle", "void-limit", "multiple-spf", "format", "length"}

\* C22: the banner of a report is the hard failure when the context holds
\* an error, the lookup-budget failure when it holds none and the root's
\* rolled-up count is above 10, and the valid banner otherwise, warnings or
\* not; the count is shown red exactly when it is above 10.  The budget is
\* looked at in the report only: no error is recorded for it, and a call
\* whose count has reached it goes on counting and expanding.
C22_Verdict ==
    /\ [](/\ HasResult
             => /\ Banner(result) =
                      (IF errors # <<>> THEN "hard-failure"
                       ELSE IF ret.node.dnsLookups > LookupBudget THEN "lookup-budget"
                       ELSE "valid")
                /\ LookupsColour(result) = "red" <=> ret.node.dnsLookups > LookupBudget
          /\ \A k \in 1..Len(errors) : errors[k].kind \in ErrorKinds)
    /\ [][ (InLoop /\ ~FollowsAll /\ IsLookupToken(Token)
            /\ Top.dnsLookups >= LookupBudget)
           => /\ errors' = errors
              /\ Len(stack') >= Len(stack)
              /\ stack'[Len(stack)].dnsLookups = Top.dnsLookups + 1
              /\ Token.name \in {"include:", "redirect="}
                 => /\ Len(stack') = Len(stack) + 1
                    /\ Top'.domain = Token.arg ]_vars

\* a report without errors, with warnings and with more than 10 lookups
C22_Witness ==
    /\ HasResult
    /\ errors = <<>>
    /\ warnings # <<>>
    /\ result.dnsLookups > LookupBudget
    /\ Banner(result) = "lookup-budget"

\* the calls whose DNS query is outstanding
Outstanding == {k \in 1..Len(stack) : stack[k].pc = "fetch"}

\* C23: at most one DNS query is outstanding, and it is that of the running
\* call; every other call of the stack awaits the call above it, which
\* resolves the target of the include or redirect token the waiting call
\* stands at; and a step changes no call but the running one, so a record's
\* next token is examined only when the subtree of the token before it is
\* complete, and the context is changed by one call at a time.
C23_Sequential ==
    /\ [](/\ Cardinality(Outstanding) <= 1
          /\ Outstanding \subseteq {Len(stack)}
          /\ Awaiting("await") => ret.kind \in {"node", "null"}
          /\ \A k \in 1..(Len(stack) - 1) :
                /\ stack[k].pc = "await"
                /\ stack[k].mechanisms[stack[k].i].name \in {"include:", "redirect="}
                /\ stack[k + 1].domain = stack[k].mechanisms[stack[k].i].arg
                /\ stack[k + 1].depth = stack[k].depth + 1)
    /\ [][ \A k \in 1..(Len(stack) - 1) :
              /\ Len(stack') >= k
              /\ stack'[k] = stack[k] ]_vars

\* the subtree of the root's first include, two levels deep, is complete and
\* the query for its second include is outstanding
C23_Witness ==
    /\ Len(stack) = 2
    /\ Outstanding = {2}
    /\ stack[1].i = 3
    /\ Len(stack[1].children) = 1
    /\ stack[1].children[1].type = "include"
    /\ Nested(stack[1].children[1].children) # <<>>
    /\ Len(queries) >= 4

\* the running call is at its guard and passes it
PassesGuard == AtEntry /\ Top.depth <= MaxDepth /\ Top.domain \notin Top.visited

\* the step only moves the running call to its next token, with the element
\* of the token at hand if elem is true, and with n more lookups counted
TokenStep(n, elem) ==
    /\ Len(stack') = Len(stack)
    /\ Caller = SubSeq(stack', 1, Len(stack) - 1)
    /\ Top'.i = Top.i + 1
    /\ Top'.dnsLookups = Top.dnsLookups + n
    /\ Top'.netblocks = Top.netblocks
    /\ Len(Top'.children) = Len(Top.children) + (IF elem THEN 1 ELSE 0)
    /\ SubSeq(Top'.children, 1, Len(Top.children)) = Top.children
    /\ UNCHANGED <<queries, dns, errors, voidLookups>>

\* C25: the step of a call that passes its guard issues the one TXT query
\* for its domain, and no other step issues a query; a call that has issued
\* its query never comes back to its entry, whatever the answer, so the
\* query is not repeated; a, mx, ptr and exists tokens are counted and query
\* nothing.
C25_OneQuery ==
    [][ /\ queries' = IF PassesGuard THEN Append(queries, Top.domain) ELSE queries
        /\ Awaiting("fetch")
           => /\ Len(stack') <= Len(stack)
              /\ Len(stack') = Len(stack) => Top'.pc = "loop"
        /\ \A k \in 1..Len(stack) :
              (stack[k].pc # "entry" /\ k <= Len(stack')) => stack'[k].pc # "entry"
        /\ (InLoop /\ ~FollowsAll /\ Token.name \in {"a", "mx", "ptr", "exists:"})
           => TokenStep(1, TRUE) ]_vars

\* the root's record with an a, an mx, a ptr and an exists token has been
\* parsed to its end with the one query for the root
C25_Witness ==
    /\ Done
    /\ ret.kind = "node"
    /\ ret.node.record.toks = Mixed
    /\ ret.node.dnsLookups = 4
    /\ queries = <<0>>

\* C26: an answer with TXT strings of which none holds v=spf1 gives no node,
\* one no-SPF warning and no error, and leaves the void count as it is.
C26_NoSpfRecord ==
    [][ (Awaiting("fetch") /\ Reply.net = "ok" /\ Reply.Status = 0
         /\ Reply.Answer # <<>> /\ SpfCount(Reply.Answer) = 0)
        => /\ ReturnsNull
           /\ warnings' = Append(warnings, NoSpfWarning(Top.domain))
           /\ errors' = errors
           /\ voidLookups' = voidLookups ]_vars

\* an included domain has TXT strings but no SPF record
C26_Witness ==
    /\ Len(stack) = 1
    /\ ret.kind = "null"
    /\ Top.pc = "await"
    /\ dns[Top.mechanisms[Top.i].arg] = DnsOk(<<NotSpf>>)
    /\ Last(warnings) = NoSpfWarning(Top.mechanisms[Top.i].arg)
    /\ voidLookups = 0
    /\ errors = <<>>

\* C27: before all, an mx token gives one mx warning and a ptr token one
\* ptr warning, an a and an exists token give no warning, and each of the
\* four counts one lookup.
C27_MxPtrWarnings ==
    [][ (InLoop /\ ~FollowsAll)
        => /\ Token.name = "mx"
              => TokenStep(1, TRUE) /\ warnings' = Append(warnings, MxWarning(Top.domain))
           /\ Token.name = "ptr"
              => TokenStep(1, TRUE) /\ warnings' = Append(warnings, PtrWarning(Top.domain))
           /\ Token.name \in {"a", "exists:"}
              => TokenStep(1, TRUE) /\ warnings' = warnings ]_vars

\* the a, mx, ptr and exists tokens of a record have been dealt with
C27_Witness ==
    /\ Awaiting("loop")
    /\ Top.mechanisms = Mixed
    /\ Top.i = 9
    /\ Top.dnsLookups = 4
    /\ Count(warnings, "mx") = 1
    /\ Count(warnings, "ptr") = 1
    /\ Len(warnings) = 3

MechanismNames == {"include:", "ip4:", "ip6:", "ptr", "a", "mx", "exists:", "all"}
\* the token matches none of the patterns of lines 145-250
MatchesNone(t) == t.name \notin MechanismNames /\ ~(t.name = "redirect=" /\ t.q = "")
\* the token's text starts with v=spf1
VersionStart(t) == t.name = "v=spf1" /\ t.q = ""

Mechanisms(children) == [k \in 1..Len(children) |-> children[k].mechanism]

\* the text stored for a token: the token's own, with a + before an
\* include, ip4 or ip6 token that has no qualifier
Stored(t) ==
    IF t.name \in {"include:", "ip4:", "ip6:"} /\ t.q = ""
    THEN [t EXCEPT !.q = "+"]
    ELSE t

\* the children from index j on are the elements of the tokens from index i
\* on, in order: none for a token after all, for a token that starts with
\* v=spf1 or matches no pattern, one or none for an include or redirect
\* token, one for every other token
RECURSIVE Matches(_, _, _, _)
Matches(toks, i, ch, j) ==
    IF i > Len(toks) THEN j > Len(ch)
    ELSE IF ~BeforeAll(toks, i - 1) \/ VersionStart(toks[i]) \/ MatchesNone(toks[i])
         THEN Matches(toks, i + 1, ch, j)
    ELSE IF j <= Len(ch) /\ ch[j].mechanism = Stored(toks[i])
                         /\ ch[j].type = ElementType(toks[i])
         THEN Matches(toks, i + 1, ch, j + 1)
    ELSE toks[i].name \in {"include:", "redirect="} /\ Matches(toks, i + 1, ch, j)

\* C29, as stated: the mechanism texts of a node's children, in order, are
\* the tokens of its record after the version token, as they were written.
C29_RoundTrip ==
    ret.kind = "node"
    => Mechanisms(ret.node.children) =
          SelectSeq(ret.node.record.toks, LAMBDA t : ~VersionStart(t))

\* C29: the mechanism texts of a node's children, in order, are the texts
\* of those tokens of its record that gave an element: the mechanism tokens
\* up to all, and the include and redirect tokens whose target gave a node;
\* each text is the token as written, but for a + before an include, ip4
\* or ip6 token written without a qualifier.
C29_StoredTexts ==
    /\ ret.kind = "node" => Matches(ret.node.record.toks, 1, ret.node.children, 1)
    /\ \A k \in 1..Len(stack) :
          InRecord(stack[k])
          => Matches(SubSeq(stack[k].mechanisms, 1, Processed(stack[k])), 1,
                     stack[k].children, 1)

\* a record with unqualified and qualified tokens, an unknown token and
\* tokens after all has given its eight elements
C29_Witness ==
    /\ Done
    /\ ret.kind = "node"
    /\ ret.node.record.toks = Mixed
    /\ Len(ret.node.children) = 8
    /\ Mixed[2].q = ""
    /\ ret.node.children[1].mechanism = [Mixed[2] EXCEPT !.q = "+"]
    /\ ret.node.children[2].mechanism = Mixed[3]
    /\ ret.node.children[4].mechanism = Mixed[5]
    /\ ret.node.children[8].type = "all"

\* the elements of a tree
RECURSIVE Elements(_)
Elements(children) ==
    Range(children)
    \cup UNION {Elements(e.children) : e \in {x \in Range(children) :
                                               x.type \in {"include", "redirect"}}}

\* C30: the text shown for every include, ip4, ip6, a, mx, ptr, exists and
\* all element starts with a qualifier, a + where the token had none.
C30_ExplicitQualifier ==
    ret.kind = "node"
    => \A e \in Elements(ret.node.children) :
          e.type # "redirect" => Display(e).q \in Qualifiers


\* the calls of checkSPF made so far: the one that runs and the others
Invocations == {Current} \cup Range(others)

\* a call whose parseSPFTree has returned
Finished(c) == c.stack = <<>> /\ c.ret # Nothing

\* what a call leaves when it has returned
Outcome(c) == <<c.ret, c.voidLookups, c.warnings, c.errors, c.queries>>

\* C24: every call of checkSPF starts parseSPFTree at depth 0 with an empty
\* visited set and a context of no void lookups, warnings or errors; a step
\* of the call that runs leaves the state of every other call as it is, and
\* a call that goes on finds its state as it left it; two calls on the same
\* domain, overlapping or not, end with the same node, context and queries,
\* and the queries of each are issued anew: nothing is cached.
C24_FreshContext ==
    /\ [](\A a \in Invocations : \A b \in Invocations :
            Finished(a) /\ Finished(b)
                => Outcome(a) = Outcome(b) /\ a.queries # <<>>)
    /\ [][\/ /\ calls' = calls + 1
             /\ stack' = <<Frame(0, 0, {})>>
             /\ voidLookups' = 0
             /\ warnings' = <<>>
             /\ errors' = <<>>
             /\ queries' = <<>>
             /\ others' \in {others, Append(others, Current)}
          \/ /\ calls' = calls
             /\ others' = others
          \/ /\ calls' = calls
             /\ \E k \in 1..Len(others) :
                  /\ others' = [others EXCEPT ![k] = Current]
                  /\ Current' = others[k]]_vars

\* a second call started while the first waited for an answer; the first
\* has since booked an error, and the second has issued its first query
\* with its context still empty
C24_Witness ==
    /\ calls = 2
    /\ active
    /\ Len(others) = 1
    /\ others[1].active
    /\ others[1].errors # <<>>
    /\ others[1].stack # <<>>
    /\ errors = <<>>
    /\ voidLookups = 0
    /\ queries # <<>>


\* the element appended in this step by the running call
NewElement == Last(stack'[Len(stack)].children)

\* the name of the result a qualifier character stands for
QualifierName(q) ==
    CASE q = "-" -> "fail"
      [] q = "~" -> "softfail"
      [] q = "?" -> "neutral"
      [] OTHER   -> "pass"

\* C31: the element of an all token carries fail for -all, softfail for
\* ~all, neutral for ?all and pass for +all and for a bare all; the element
\* of an include token whose target gave a node carries the token's leading
\* character when that is one of + - ~ ?, and + when the token has none.
C31_Qualifiers ==
    [][ /\ AtToken("all")
           => /\ TokenStep(0, TRUE)
              /\ NewElement.type = "all"
              /\ NewElement.qualifier = QualifierName(Token.q)
              /\ Token.q \in {"", "+"} => NewElement.qualifier = "pass"
        /\ (Awaiting("await") /\ TokenKind(Token) = "include" /\ ret.kind = "node")
           => /\ NewElement.type = "include"
              /\ NewElement.qualifier \in Qualifiers
              /\ Token.q # "" => NewElement.qualifier = Token.q
              /\ Token.q = "" => NewElement.qualifier = "+" ]_vars

\* the root's include had a ~ and its ?all has given a neutral element
C31_Witness ==
    /\ Running
    /\ Len(stack) = 1
    /\ Len(Top.children) = 2
    /\ Top.children[1].type = "include"
    /\ Top.children[1].qualifier = "~"
    /\ Top.children[1].children[1].qualifier = "pass"
    /\ Top.children[2].type = "all"
    /\ Top.children[2].mechanism = All("?")
    /\ Top.children[2].qualifier = "neutral"


\* s is the beginning of t
IsPrefix(s, t) == Len(s) <= Len(t) /\ SubSeq(t, 1, Len(s)) = s

\* C32: in the course of a resolution the void-lookup count never goes
\* down and grows by at most one a step, and errors and warnings only grow
\* at their end: every entry keeps its place and its text; a report holds
\* the errors, the warnings and the void-lookup count of the context as
\* they are when the root call has returned.
C32_ContextOnlyGrows ==
    /\ [](HasResult => /\ result.errors = errors
                       /\ result.warnings = warnings
                       /\ result.voidLookups = voidLookups
                       /\ Done)
    /\ [][ /\ voidLookups' \in {voidLookups, voidLookups + 1}
           /\ IsPrefix(errors, errors')
           /\ IsPrefix(warnings, warnings') ]_vars

\* a report with two errors, a warning and a void lookup of the resolution
C32_Witness ==
    /\ HasResult
    /\ Len(result.errors) >= 2
    /\ Len(result.warnings) >= 1
    /\ result.voidLookups >= 1


\* the names whose fetch ended without an answer: it timed out or was
\* aborted, so fetch threw
TimedOut == {d \in DOMAIN dns : dns[d].net = "throw"}

\* C33: when a fetch of the resolution has timed out or was aborted, the
\* check ends without a report: no tree that lacks the branch of the
\* abandoned fetch is shown as the result.
C33_CancelledNotPartial ==
    HasResult => TimedOut = {}


\* the lookups an element of the tree carries
ElementLookups(e) ==
    IF e.type \in {"include", "redirect", "a", "mx", "ptr", "exists"}
    THEN e.dnsLookups ELSE 0

\* the sum of the lookups carried by the elements
RECURSIVE ElementSum(_)
ElementSum(children) ==
    IF children = <<>> THEN 0
    ELSE ElementSum(SubSeq(children, 1, Len(children) - 1))
         + ElementLookups(children[Len(children)])

\* the include and redirect tokens before all whose target gave no node:
\* they are counted, and no element stands for them
FailedTargets(toks, children) ==
    Cardinality({j \in 1..Len(toks) :
                    BeforeAll(toks, j) /\ TokenKind(toks[j]) \in {"include", "redirect"}})
    - Len(Nested(children))

\* every element carries what the claim says: 1 for a, mx, ptr and exists,
\* 1 plus the total of its target for include and redirect, the total of a
\* target being the sum over its elements and, if failed is true, 1 more for
\* every target of it that gave no node
RECURSIVE Carries(_, _)
Carries(children, failed) ==
    \A k \in 1..Len(children) :
        LET e == children[k] IN
        /\ e.type \in {"a", "mx", "ptr", "exists"} => e.dnsLookups = 1
        /\ e.type \in {"ip4", "ip6", "all"} => ElementLookups(e) = 0
        /\ e.type \in {"include", "redirect"}
           => /\ e.dnsLookups = 1 + ElementSum(e.children)
                                + (IF failed
                                   THEN FailedTargets(e.record.toks, e.children)
                                   ELSE 0)
              /\ Carries(e.children, failed)

\* C34 as stated: the lookup count of a returned node is the sum of the
\* lookups its elements carry.
C34_ElementsAddUp ==
    ret.kind = "node"
    => /\ ret.node.dnsLookups = ElementSum(ret.node.children)
       /\ Carries(ret.node.children, FALSE)

\* C34: the lookup count of a returned node is the sum of the lookups its
\* elements carry (1 for a, mx, ptr and exists, 1 plus the target's total
\* for include and redirect, 0 for ip4, ip6 and all) plus 1 for every
\* include or redirect token before all whose target gave no node, which
\* is counted and has no element.
C34_ElementsAndFailedTargets ==
    ret.kind = "node"
    => /\ ret.node.dnsLookups = ElementSum(ret.node.children)
                                + FailedTargets(ret.node.record.toks, ret.node.children)
       /\ Carries(ret.node.children, TRUE)

\* the root has an include that gave a node with lookups of its own and an
\* include that gave none
C34_Witness ==
    /\ Done
    /\ ret.kind = "node"
    /\ FailedTargets(ret.node.record.toks, ret.node.children) = 1
    /\ Len(ret.node.children) = 1
    /\ ret.node.children[1].type = "include"
    /\ ret.node.children[1].dnsLookups = 5
    /\ ElementSum(ret.node.children) = 5
    /\ ret.node.dnsLookups = 6


\* the entries a step has added to a list belong to the call that runs
OfRunningCall(old, new) ==
    /\ IsPrefix(old, new)
    /\ \A k \in (Len(old) + 1)..Len(new) : Running /\ new[k].domain = Top.domain

\* the errors and the warnings of the resolution of OrderZone, in
\* depth-first record order
OrderZoneErrors ==
    <<LengthError(MaxOctets + 1, 0), FormatError(1), DepthError(0), DepthError(0)>>
OrderZoneWarnings ==
    <<MxWarning(0), UnknownWarning(Tok("", "exp=", 1, NoPfx), 1), PtrWarning(0)>>

\* C35: all calls of a resolution write to the one context, in depth-first
\* record order: a step adds entries at the end only, and they are those of
\* the running call, while every call that waits at an include or redirect
\* token stays at that token until its target has returned; so the entries
\* of a target stand after those of the tokens before its include or
\* redirect and before those of the tokens after it.  A root that warns
\* before and after an include whose target warns as well ends with the
\* three warnings in that order, and so with its errors.
C35_DepthFirstOrder ==
    /\ [](/\ \A k \in 1..(Len(stack) - 1) : stack[k].pc = "await"
          /\ (Done /\ dns = OrderZone)
             => errors = OrderZoneErrors /\ warnings = OrderZoneWarnings)
    /\ [][ /\ OfRunningCall(errors, errors')
           /\ OfRunningCall(warnings, warnings')
           /\ \A k \in 1..(Len(stack) - 1) :
                 k <= Len(stack') => stack'[k] = stack[k] ]_vars

\* the root gave an error and a warning before its first include, the
\* target of the include an error, a warning and, for its own target, an
\* error, and the root a warning and an error after it
C35_Witness ==
    /\ Done
    /\ dns = OrderZone
    /\ Len(errors) = 4
    /\ errors[2] = FormatError(1)
    /\ Len(warnings) = 3
    /\ warnings[2].domain = 1
    /\ warnings[3] = PtrWarning(0)


\* the domains of the calls that enclose the call k of the stack
Ancestors(k) == {stack[j].domain : j \in 1..(k - 1)}

\* C36: when a call is entered, and until its record is there, its visited
\* set is the set of the domains of the calls that enclose it, as many as
\* its depth; from then on it holds the call's own domain as well.  A
\* call's set changes in one step only: the one in which the answer with
\* its record arrives, which adds the call's domain.
C36_VisitedIsPath ==
    /\ [](\A k \in 1..Len(stack) :
            /\ stack[k].depth = k - 1
            /\ stack[k].pc \in {"entry", "fetch"}
               => /\ stack[k].visited = Ancestors(k)
                  /\ Cardinality(stack[k].visited) = stack[k].depth
            /\ stack[k].pc \in {"loop", "await"}
               => /\ stack[k].visited = Ancestors(k) \cup {stack[k].domain}
                  /\ stack[k].domain \notin Ancestors(k)
                  /\ RecordFetched(stack[k].domain, stack[k].record))
    /\ [][ \A k \in 1..Len(stack) :
             (k <= Len(stack') /\ stack'[k].visited # stack[k].visited)
             => /\ k = Len(stack)
                /\ Top.pc = "fetch"
                /\ Parsed(stack'[k].record)
                /\ stack'[k].record # NoRecord
                /\ stack'[k].visited = stack[k].visited \cup {Top.domain} ]_vars

\* a call two levels down is entered with the two domains above it
C36_Witness ==
    /\ Len(stack) = 3
    /\ Top.pc = "entry"
    /\ Top.depth = 2
    /\ Top.visited = {stack[1].domain, stack[2].domain}
    /\ Cardinality(Top.visited) = 2
    /\ Top.domain \notin Top.visited


\* no element of include or redirect below a node has the domain of the
\* node or of a node above it, seen being those domains
RECURSIVE PathsDistinct(_, _)
PathsDistinct(children, seen) ==
    \A k \in 1..Len(children) :
        children[k].type \in {"include", "redirect"}
        => /\ children[k].domain \notin seen
           /\ PathsDistinct(children[k].children, seen \cup {children[k].domain})

\* C37: in the tree a resolution returns, the domains on every path from
\* the root down through include and redirect elements are distinct, and no
\* path has more than 11 domain nodes.
C37_PathsBounded ==
    (Done /\ ret.kind = "node")
    => /\ PathsDistinct(ret.node.children, {ret.node.domain})
       /\ Height(ret.node.children) <= MaxDepth + 1

\* a tree with a path of 11 domain nodes
C37_Witness ==
    /\ Done
    /\ ret.kind = "node"
    /\ Height(ret.node.children) = MaxDepth + 1
    /\ PathsDistinct(ret.node.children, {ret.node.domain})


\* C38: whatever checks were started, with an input or without, by the
\* button or by the Enter key, the component never holds an error message
\* and a result at once.
C38_ErrorOrResult ==
    error = NoError \/ result = NoResult

\* a call of checkSPF that has not reached its end
InFlight == active \/ \E k \in 1..Len(others) : others[k].active

\* C39: loading is set exactly while a call of checkSPF is under way: from
\* before its first query until it has ended, and as long as any call that
\* was started in the meantime has not ended.
C39_LoadingWhileInFlight ==
    loading <=> InFlight


\* what a call has returned and left in its context
Resolution(c) ==
    [node |-> IF c.ret.kind = "node" THEN c.ret.node ELSE NoResult,
     voidLookups |-> c.voidLookups,
     errors |-> c.errors,
     warnings |-> c.warnings]

=============================================================================
